---- MODULE Spec2Model ----
(***************************************************************************)
(* A model of rasa_nlu/training_data/training_data.py: the TrainingData    *)
(* aggregate, its constructor (sanitize, sort, validate, print_stats) and  *)
(* merge.                                                                  *)
(*                                                                         *)
(* Python objects that have an identity (Message, regex-feature dict,      *)
(* synonym dict, phrase set) live in a heap and are referred to by their   *)
(* index, so that aliasing and in-place mutation are visible.              *)
(* Strings whose characters matter (intent labels, regex names and         *)
(* patterns, entity types of spans) are sequences of code points; strings  *)
(* that are only compared for equality (texts, synonyms, phrases) are TLA+ *)
(* strings.  A dict is the sequence of its <<key, value>> items in         *)
(* insertion order.  An optional value is <<>> (None) or <<v>>.            *)
(***************************************************************************)
EXTENDS Integers, Sequences, FiniteSets, TLC

VARIABLES heap, ds, last, log

vars == <<heap, ds, last, log>>

(* ------------------------------------------------------------------ *)
(* Bounds of the model                                                *)
(* ------------------------------------------------------------------ *)

\* how many TrainingData instances a run creates
MaxDatasets == 3

\* how many `others` one merge call is given
MaxOthers == 2

\* how many examples, and how many regex features, a merged instance holds
MaxItems == 4

(* ------------------------------------------------------------------ *)
(* Python values                                                      *)
(* ------------------------------------------------------------------ *)

None == <<>>

Some(v) == <<v>>

Range(s) == {s[i] : i \in DOMAIN s}

\* a list comprehension evaluated to its elements
List(f) == f \o <<>>

\* the code point of "+", the separator of the regex sort key
PLUS == 43

\* the characters str.strip() removes
Whitespace ==
    {9, 10, 11, 12, 13, 28, 29, 30, 31, 32, 133, 160, 5760}
    \cup (8192..8202) \cup {8232, 8233, 8239, 8287, 12288}

RECURSIVE lstrip(_)
lstrip(s) ==
    IF s = <<>> \/ Head(s) \notin Whitespace THEN s ELSE lstrip(Tail(s))

RECURSIVE rstrip(_)
rstrip(s) ==
    IF s = <<>> \/ s[Len(s)] \notin Whitespace THEN s
    ELSE rstrip(SubSeq(s, 1, Len(s) - 1))

strip(s) == rstrip(lstrip(s))

\* a < b for Python strings: lexicographic by code point
RECURSIVE StrLess(_, _)
StrLess(a, b) ==
    IF b = <<>> THEN FALSE
    ELSE IF a = <<>> THEN TRUE
    ELSE IF Head(a) # Head(b) THEN Head(a) < Head(b)
    ELSE StrLess(Tail(a), Tail(b))

\* sorted(items, key=...): keys[i] is the key of items[i].  The sort is stable:
\* each item goes after every item already placed whose key is <= its own.
sorted(items, keys) ==
    LET ins(acc, i) ==
            LET pos == Cardinality({p \in DOMAIN acc : ~StrLess(keys[i], keys[acc[p]])})
            IN SubSeq(acc, 1, pos) \o <<i>> \o SubSeq(acc, pos + 1, Len(acc))
        perm[n \in 0..Len(items)] == IF n = 0 THEN <<>> ELSE ins(perm[n - 1], n)
        order == perm[Len(items)]
    IN List([p \in 1..Len(items) |-> items[order[p]]])

\* dict operations
DictKeys(d) == {d[i][1] : i \in DOMAIN d}

DictGet(d, k) == d[CHOOSE i \in DOMAIN d : d[i][1] = k][2]

DictSet(d, k, v) ==
    IF k \in DictKeys(d)
    THEN List([i \in DOMAIN d |-> IF d[i][1] = k THEN <<k, v>> ELSE d[i]])
    ELSE Append(d, <<k, v>>)

\* d.update(o)
update(d, o) ==
    LET f[n \in 0..Len(o)] == IF n = 0 THEN d ELSE DictSet(f[n - 1], o[n][1], o[n][2])
    IN f[Len(o)]

\* dict(Counter(xs)): keys in order of first occurrence
Counter(xs) ==
    LET f[n \in 0..Len(xs)] ==
            IF n = 0 THEN <<>>
            ELSE LET c == f[n - 1]
                 IN DictSet(c, xs[n], IF xs[n] \in DictKeys(c) THEN DictGet(c, xs[n]) + 1 ELSE 1)
    IN f[Len(xs)]

\* the concatenation of a sequence of sequences
Flatten(ss) ==
    LET f[n \in 0..Len(ss)] == IF n = 0 THEN <<>> ELSE f[n - 1] \o ss[n]
    IN f[Len(ss)]

\* a list comprehension [x for x in xs if keep(x)], keep given as a set of indices
Filter(xs, keepIdx) ==
    LET f[n \in 0..Len(xs)] ==
            IF n = 0 THEN <<>>
            ELSE IF n \in keepIdx THEN Append(f[n - 1], xs[n]) ELSE f[n - 1]
    IN f[Len(xs)]

(* ------------------------------------------------------------------ *)
(* The heap                                                           *)
(* ------------------------------------------------------------------ *)

EmptyHeap == [msg |-> <<>>, rx |-> <<>>, syn |-> <<>>, set |-> <<>>]

\* new Message objects holding vals; ids are their references
AllocMsgs(h, vals) ==
    [heap |-> [h EXCEPT !.msg = @ \o vals],
     ids  |-> List([i \in 1..Len(vals) |-> Len(h.msg) + i])]

AllocRx(h, vals) ==
    [heap |-> [h EXCEPT !.rx = @ \o vals],
     ids  |-> List([i \in 1..Len(vals) |-> Len(h.rx) + i])]

AllocSyn(h, val) ==
    [heap |-> [h EXCEPT !.syn = Append(@, val)], id |-> Len(h.syn) + 1]

AllocSet(h, val) ==
    [heap |-> [h EXCEPT !.set = Append(@, val)], id |-> Len(h.set) + 1]

\* a new dict entity -> new set object, one per item of vals (entity -> set value)
AllocPhrases(h, vals) ==
    [heap |-> [h EXCEPT !.set = @ \o [i \in 1..Len(vals) |-> vals[i][2]]],
     dict |-> List([i \in 1..Len(vals) |-> <<vals[i][1], Len(h.set) + i>>])]

\* deepcopy of a list of Messages / of regex features / of the phrases dict
deepcopy_examples(h, ids) == AllocMsgs(h, List([i \in 1..Len(ids) |-> h.msg[ids[i]]]))

deepcopy_regex(h, ids) == AllocRx(h, List([i \in 1..Len(ids) |-> h.rx[ids[i]]]))

deepcopy_phrases(h, dict) ==
    AllocPhrases(h, List([i \in 1..Len(dict) |-> <<dict[i][1], h.set[dict[i][2]]>>]))

(* ------------------------------------------------------------------ *)
(* Message and the lazy properties                                    *)
(* ------------------------------------------------------------------ *)

\* Message.get(prop) as a truth value: None, "" and [] are false
Truthy(opt) == opt # None /\ opt[1] # <<>>

\* class attributes
MIN_EXAMPLES_PER_INTENT == 2

MIN_EXAMPLES_PER_ENTITY == 2

\* a TrainingData instance before __init__ has assigned anything; `cached`
\* holds the names of the lazy properties already computed on the instance
NewObject ==
    [training_examples |-> <<>>, entity_synonyms |-> 0, regex_features |-> <<>>,
     entity_phrases |-> <<>>, cached |-> {},
     intent_examples |-> <<>>, entity_examples |-> <<>>, intents |-> {},
     examples_per_intent |-> <<>>, entities |-> {}, examples_per_entity |-> <<>>]

intent_examples(h, d) ==
    Filter(d.training_examples,
           {i \in DOMAIN d.training_examples : Truthy(h.msg[d.training_examples[i]].intent)})

entity_examples(h, d) ==
    Filter(d.training_examples,
           {i \in DOMAIN d.training_examples : h.msg[d.training_examples[i]].entities # <<>>})

\* set of the intent strings; None is removed, "" is not
intents(h, d) ==
    {h.msg[d.training_examples[i]].intent[1] :
        i \in {j \in DOMAIN d.training_examples : h.msg[d.training_examples[j]].intent # None}}

\* keys are optional strings: the count of None is kept
examples_per_intent(h, d) ==
    Counter(List([i \in DOMAIN d.training_examples |-> h.msg[d.training_examples[i]].intent]))

\* lazyproperty: the value is computed on first access and kept on the instance
lazy_intent_examples(h, d) ==
    IF "intent_examples" \in d.cached THEN d
    ELSE [d EXCEPT !.intent_examples = intent_examples(h, d),
                   !.cached = @ \cup {"intent_examples"}]

lazy_entity_examples(h, d) ==
    IF "entity_examples" \in d.cached THEN d
    ELSE [d EXCEPT !.entity_examples = entity_examples(h, d),
                   !.cached = @ \cup {"entity_examples"}]

lazy_intents(h, d) ==
    IF "intents" \in d.cached THEN d
    ELSE [d EXCEPT !.intents = intents(h, d), !.cached = @ \cup {"intents"}]

lazy_examples_per_intent(h, d) ==
    IF "examples_per_intent" \in d.cached THEN d
    ELSE [d EXCEPT !.examples_per_intent = examples_per_intent(h, d),
                   !.cached = @ \cup {"examples_per_intent"}]

\* all entity spans of the entity examples, sorted by entity type (stable);
\* d has entity_examples cached
sorted_entities(h, d) ==
    LET spans == Flatten(List([i \in DOMAIN d.entity_examples |-> h.msg[d.entity_examples[i]].entities]))
    IN sorted(spans, List([i \in DOMAIN spans |-> spans[i].entity]))

entities(h, d) ==
    LET es == sorted_entities(h, d) IN {es[i].entity : i \in DOMAIN es}

examples_per_entity(h, d) ==
    LET es == sorted_entities(h, d) IN Counter(List([i \in DOMAIN es |-> es[i].entity]))

lazy_entities(h, d) ==
    IF "entities" \in d.cached THEN d
    ELSE LET d1 == lazy_entity_examples(h, d)
         IN [d1 EXCEPT !.entities = entities(h, d1), !.cached = @ \cup {"entities"}]

lazy_examples_per_entity(h, d) ==
    IF "examples_per_entity" \in d.cached THEN d
    ELSE LET d1 == lazy_entity_examples(h, d)
         IN [d1 EXCEPT !.examples_per_entity = examples_per_entity(h, d1),
                       !.cached = @ \cup {"examples_per_entity"}]

(* ------------------------------------------------------------------ *)
(* TrainingData: construction                                         *)
(* Every method takes the heap and the instance and returns the heap, *)
(* the instance and the warnings it emitted.                          *)
(* ------------------------------------------------------------------ *)

\* sanitize_examples that removes trailing whitespace only (rstrip)
sanitize_examples_rstrip(h, d) ==
    LET mine == Range(d.training_examples)
    IN [heap |-> [h EXCEPT !.msg =
                     List([i \in DOMAIN h.msg |->
                         IF i \in mine /\ Truthy(h.msg[i].intent)
                         THEN [h.msg[i] EXCEPT !.intent = Some(rstrip(@[1]))]
                         ELSE h.msg[i]])],
        obj |-> d,
        warnings |-> <<>>]

\* ex.set("intent", ex.get("intent").strip()) for every example with a truthy intent
sanitize_examples(h, d) ==
    LET mine == Range(d.training_examples)
    IN [heap |-> [h EXCEPT !.msg =
                     List([i \in DOMAIN h.msg |->
                         IF i \in mine /\ Truthy(h.msg[i].intent)
                         THEN [h.msg[i] EXCEPT !.intent = Some(strip(@[1]))]
                         ELSE h.msg[i]])],
        obj |-> d,
        warnings |-> <<>>]

\* "{}+{}".format(e['name'], e['pattern'])
regex_key(e) == e.name \o <<PLUS>> \o e.pattern

\* sort_regex_features with the name alone as the key
sort_regex_features_by_name(h, d) ==
    [heap |-> h,
     obj |-> [d EXCEPT !.regex_features =
                 sorted(@, List([i \in DOMAIN @ |-> h.rx[@[i]].name]))],
     warnings |-> <<>>]

sort_regex_features(h, d) ==
    [heap |-> h,
     obj |-> [d EXCEPT !.regex_features =
                 sorted(@, List([i \in DOMAIN @ |-> regex_key(h.rx[@[i]])]))],
     warnings |-> <<>>]

\* the warnings of one rule: for every item of a count dict below the minimum
below_minimum(kind, counts, minimum) ==
    LET f[n \in 0..Len(counts)] ==
            IF n = 0 THEN <<>>
            ELSE IF counts[n][2] < minimum
                 THEN Append(f[n - 1], [kind |-> kind, key |-> counts[n][1],
                                        count |-> counts[n][2], minimum |-> minimum])
                 ELSE f[n - 1]
    IN f[Len(counts)]

\* validate that also warns at the minimum itself (count <= minimum)
validate_at_minimum(h, d) ==
    LET d1 == lazy_intents(h, d)
        w1 == IF <<>> \in d1.intents THEN <<[kind |-> "empty_intent"]>> ELSE <<>>
        d2 == lazy_examples_per_intent(h, d1)
        w2 == below_minimum("intent", d2.examples_per_intent, MIN_EXAMPLES_PER_INTENT + 1)
        d3 == lazy_examples_per_entity(h, d2)
        w3 == below_minimum("entity", d3.examples_per_entity, MIN_EXAMPLES_PER_ENTITY + 1)
    IN [heap |-> h, obj |-> d3, warnings |-> w1 \o w2 \o w3]

validate(h, d) ==
    LET d1 == lazy_intents(h, d)
        w1 == IF <<>> \in d1.intents THEN <<[kind |-> "empty_intent"]>> ELSE <<>>
        d2 == lazy_examples_per_intent(h, d1)
        w2 == below_minimum("intent", d2.examples_per_intent, MIN_EXAMPLES_PER_INTENT)
        d3 == lazy_examples_per_entity(h, d2)
        w3 == below_minimum("entity", d3.examples_per_entity, MIN_EXAMPLES_PER_ENTITY)
    IN [heap |-> h, obj |-> d3, warnings |-> w1 \o w2 \o w3]

\* logger.info of the statistics: reads four lazy properties
print_stats(h, d) ==
    [heap |-> h,
     obj |-> lazy_entities(h, lazy_entity_examples(h, lazy_intents(h, lazy_intent_examples(h, d)))),
     warnings |-> <<>>]

\* TrainingData(training_examples, entity_synonyms, regex_features, entity_phrases):
\* the arguments are references (lists of ids, the id of a dict, a dict of set ids)
__init__(h, training_examples, entity_synonyms, regex_features, entity_phrases) ==
    LET s1 == sanitize_examples(h, [NewObject EXCEPT !.training_examples = training_examples])
        \* entity_synonyms or {}: an empty dict is replaced by a new one
        syn == IF s1.heap.syn[entity_synonyms] # <<>>
               THEN [heap |-> s1.heap, id |-> entity_synonyms]
               ELSE AllocSyn(s1.heap, <<>>)
        s2 == sort_regex_features(syn.heap,
                  [s1.obj EXCEPT !.entity_synonyms = syn.id, !.regex_features = regex_features])
        s3 == validate(s2.heap, [s2.obj EXCEPT !.entity_phrases = entity_phrases])
        s4 == print_stats(s3.heap, s3.obj)
    IN [heap |-> s4.heap, obj |-> s4.obj, warnings |-> s3.warnings]

(* ------------------------------------------------------------------ *)
(* TrainingData: merge                                                *)
(* ------------------------------------------------------------------ *)

\* rasa_nlu.training_data.util.check_duplicate_synonym: warns when text is
\* already mapped to another synonym
check_duplicate_synonym(entity_synonyms, text, syn) ==
    IF text \in DictKeys(entity_synonyms) /\ DictGet(entity_synonyms, text) # syn
    THEN <<[kind |-> "duplicate_synonym", key |-> text,
            old |-> DictGet(entity_synonyms, text), new |-> syn]>>
    ELSE <<>>

\* _merge_entity_synonyms that keeps a value already there
\* (setdefault for every item) instead of overwriting it
_merge_entity_synonyms_keep_first(h, entity_synonyms, o) ==
    LET items == h.syn[o.entity_synonyms]
    IN [heap |-> [h EXCEPT !.syn[entity_synonyms] = update(items, @)],
        warnings |-> Flatten(List([i \in DOMAIN items |->
                        check_duplicate_synonym(h.syn[entity_synonyms], items[i][1], items[i][2])]))]

\* entity_synonyms is the id of the accumulated dict, o the other instance;
\* every item of o is checked against the dict as it was, then the dict is
\* updated in place
_merge_entity_synonyms(h, entity_synonyms, o) ==
    LET items == h.syn[o.entity_synonyms]
    IN [heap |-> [h EXCEPT !.syn[entity_synonyms] = update(@, items)],
        warnings |-> Flatten(List([i \in DOMAIN items |->
                        check_duplicate_synonym(h.syn[entity_synonyms], items[i][1], items[i][2])]))]

\* _merge_entity_phrases that assigns o's set to a known entity as well,
\* without the union
_merge_entity_phrases_overwrite(h, entity_phrases, o) ==
    LET f[n \in 0..Len(o.entity_phrases)] ==
            IF n = 0 THEN [heap |-> h, dict |-> entity_phrases]
            ELSE LET acc == f[n - 1]
                 IN [heap |-> acc.heap,
                     dict |-> DictSet(acc.dict, o.entity_phrases[n][1], o.entity_phrases[n][2])]
    IN f[Len(o.entity_phrases)]

\* entity_phrases is the accumulated dict entity -> set id.  A known entity
\* gets a new set, the union; an unknown entity gets o's own set object.
_merge_entity_phrases(h, entity_phrases, o) ==
    LET f[n \in 0..Len(o.entity_phrases)] ==
            IF n = 0 THEN [heap |-> h, dict |-> entity_phrases]
            ELSE LET acc == f[n - 1]
                     entity == o.entity_phrases[n][1]
                     phrases == o.entity_phrases[n][2]
                 IN IF entity \in DictKeys(acc.dict)
                    THEN LET u == AllocSet(acc.heap,
                                      acc.heap.set[DictGet(acc.dict, entity)] \cup acc.heap.set[phrases])
                         IN [heap |-> u.heap, dict |-> DictSet(acc.dict, entity, u.id)]
                    ELSE [heap |-> acc.heap, dict |-> DictSet(acc.dict, entity, phrases)]
    IN f[Len(o.entity_phrases)]

\* merge_start that takes self's synonym dict itself, not a copy of it
merge_start_no_copy(h, self) ==
    LET e == deepcopy_examples(h, self.training_examples)
        r == deepcopy_regex(e.heap, self.regex_features)
        p == deepcopy_phrases(r.heap, self.entity_phrases)
    IN [heap |-> p.heap, training_examples |-> e.ids, entity_synonyms |-> self.entity_synonyms,
        regex_features |-> r.ids, entity_phrases |-> p.dict, warnings |-> <<>>]

\* the locals of merge before the loop: copies of self's four containers
merge_start(h, self) ==
    LET e == deepcopy_examples(h, self.training_examples)
        s == AllocSyn(e.heap, e.heap.syn[self.entity_synonyms])
        r == deepcopy_regex(s.heap, self.regex_features)
        p == deepcopy_phrases(r.heap, self.entity_phrases)
    IN [heap |-> p.heap, training_examples |-> e.ids, entity_synonyms |-> s.id,
        regex_features |-> r.ids, entity_phrases |-> p.dict, warnings |-> <<>>]

\* merge_step that puts o's examples in front of the accumulated ones
merge_step_prepend(st, o) ==
    LET e == deepcopy_examples(st.heap, o.training_examples)
        r == deepcopy_regex(e.heap, o.regex_features)
        s == _merge_entity_synonyms(r.heap, st.entity_synonyms, o)
        p == _merge_entity_phrases(s.heap, st.entity_phrases, o)
    IN [heap |-> p.heap,
        training_examples |-> e.ids \o st.training_examples,
        entity_synonyms |-> st.entity_synonyms,
        regex_features |-> st.regex_features \o r.ids,
        entity_phrases |-> p.dict,
        warnings |-> st.warnings \o s.warnings]

\* one round of the loop over others
merge_step(st, o) ==
    LET e == deepcopy_examples(st.heap, o.training_examples)
        r == deepcopy_regex(e.heap, o.regex_features)
        s == _merge_entity_synonyms(r.heap, st.entity_synonyms, o)
        p == _merge_entity_phrases(s.heap, st.entity_phrases, o)
    IN [heap |-> p.heap,
        training_examples |-> st.training_examples \o e.ids,
        entity_synonyms |-> st.entity_synonyms,
        regex_features |-> st.regex_features \o r.ids,
        entity_phrases |-> p.dict,
        warnings |-> st.warnings \o s.warnings]

\* merge that goes through the others from the last to the first
merge_reversed(h, self, others) ==
    LET n == Len(others)
        loop[k \in 0..n] ==
            IF k = 0 THEN merge_start(h, self) ELSE merge_step(loop[k - 1], others[n + 1 - k])
        st == loop[n]
        new == __init__(st.heap, st.training_examples, st.entity_synonyms,
                        st.regex_features, st.entity_phrases)
    IN [heap |-> new.heap, obj |-> new.obj, warnings |-> st.warnings \o new.warnings]

\* self.merge(*others): self and the others are instances
merge(h, self, others) ==
    LET loop[k \in 0..Len(others)] ==
            IF k = 0 THEN merge_start(h, self) ELSE merge_step(loop[k - 1], others[k])
        st == loop[Len(others)]
        new == __init__(st.heap, st.training_examples, st.entity_synonyms,
                        st.regex_features, st.entity_phrases)
    IN [heap |-> new.heap, obj |-> new.obj, warnings |-> st.warnings \o new.warnings]

(* ------------------------------------------------------------------ *)
(* Inputs of the constructor                                          *)
(* ------------------------------------------------------------------ *)

Msg(intent, text, ents) == [intent |-> intent, text |-> text, entities |-> ents]

Span(entity, value) == [entity |-> entity, value |-> value]

Rx(name, pattern) == [name |-> name, pattern |-> pattern]

Input(examples, synonyms, regex, phrases) ==
    [examples |-> examples, synonyms |-> synonyms, regex |-> regex, phrases |-> phrases]

NoInput == Input(<<>>, <<>>, <<>>, <<>>)

\* intent labels: "a", " a", "a ", " ", "b"
S_a == <<97>>
S_b == <<98>>
S_city == <<99>>
S_food == <<102>>

\* datasets loaded from files, to be merged: synonyms that conflict, agree
\* or are new, phrases of known and unknown entity types, regex features
\* with equal sort keys ("a" + "+a" and "a+" + "a")
MergeInputs ==
    { Input(<<Msg(Some(S_a), "e1", <<>>)>>,
            <<<<"NYC", "New York">>>>,
            <<Rx(S_a, <<PLUS, 97>>)>>,
            <<<<"city", {"Paris"}>>>>),
      Input(<<Msg(Some(S_b), "e2", <<Span(S_city, "x")>>)>>,
            <<<<"NYC", "new york city">>, <<"LA", "Los Angeles">>>>,
            <<Rx(<<97, PLUS>>, S_a)>>,
            <<<<"city", {"London"}>>>>),
      Input(<<Msg(Some(S_a), "e3", <<>>), Msg(None, "e4", <<>>)>>,
            <<<<"NYC", "New York">>>>,
            <<Rx(S_b, <<>>), Rx(S_a, S_a)>>,
            <<<<"food", {"Pizza"}>>, <<"city", {"Paris", "Rome"}>>>>),
      Input(<<>>, <<<<"LA", "L.A.">>>>, <<>>, <<<<"food", {"Pasta"}>>>>),
      NoInput }

\* datasets that differ in their regex features: "b"+"", "a"+"+a", "a+"+"a"
\* (the same sort key as the one before), "a"+"a"
RegexInputs ==
    { Input(<<>>, <<>>, <<Rx(S_b, <<>>), Rx(S_a, <<PLUS, 97>>)>>, <<>>),
      Input(<<>>, <<>>, <<Rx(S_a, <<PLUS, 97>>), Rx(<<97, PLUS>>, S_a)>>, <<>>),
      Input(<<>>, <<>>, <<Rx(<<97, PLUS>>, S_a)>>, <<>>),
      Input(<<>>, <<>>, <<Rx(S_a, S_a), Rx(S_a, <<PLUS, 97>>)>>, <<>>),
      NoInput }

\* datasets that differ in their examples: intents " a" and "a ", "a", none,
\* " " and "", with and without entity spans
IntentInputs ==
    { Input(<<Msg(Some(<<160, 32, 97>>), "t1", <<>>),
              Msg(Some(<<97, 133>>), "t2", <<Span(S_city, "x")>>)>>, <<>>, <<>>, <<>>),
      Input(<<Msg(Some(S_a), "t3", <<Span(S_food, "y"), Span(S_city, "z")>>)>>, <<>>, <<>>, <<>>),
      Input(<<Msg(None, "t4", <<Span(S_city, "x")>>)>>, <<>>, <<>>, <<>>),
      Input(<<Msg(Some(<<32>>), "t5", <<>>), Msg(Some(<<32, 8195, 98, 12288>>), "t6", <<>>)>>,
            <<>>, <<>>, <<>>),
      NoInput }

(* ------------------------------------------------------------------ *)
(* The state machine                                                  *)
(* heap: the objects; ds: the TrainingData instances created so far   *)
(* (an instance is identified by its index); last: the last call;     *)
(* log: the warnings the last call emitted.                           *)
(* ------------------------------------------------------------------ *)

Init ==
    /\ heap = EmptyHeap
    /\ ds = <<>>
    /\ last = [op |-> "none", self |-> 0, others |-> <<>>, args |-> NoInput]
    /\ log = <<>>

\* TrainingData(examples, synonyms, regex, phrases) on freshly loaded containers
Construct(inp) ==
    /\ Len(ds) < MaxDatasets
    /\ LET e == AllocMsgs(heap, inp.examples)
           s == AllocSyn(e.heap, inp.synonyms)
           r == AllocRx(s.heap, inp.regex)
           p == AllocPhrases(r.heap, inp.phrases)
           new == __init__(p.heap, e.ids, s.id, r.ids, p.dict)
       IN /\ heap' = new.heap
          /\ ds' = Append(ds, new.obj)
          /\ log' = new.warnings
    /\ last' = [op |-> "init", self |-> 0, others |-> <<>>, args |-> inp]

\* the sum of a sequence of numbers
Sum(ns) ==
    LET f[n \in 0..Len(ns)] == IF n = 0 THEN 0 ELSE f[n - 1] + ns[n]
    IN f[Len(ns)]

\* the merged instance stays within MaxItems
Fits(self, others) ==
    /\ Len(ds[self].training_examples)
          + Sum(List([k \in DOMAIN others |-> Len(ds[others[k]].training_examples)])) <= MaxItems
    /\ Len(ds[self].regex_features)
          + Sum(List([k \in DOMAIN others |-> Len(ds[others[k]].regex_features)])) <= MaxItems

\* ds[self].merge(ds[others[1]], ...)
Merge(self, others) ==
    /\ Len(ds) < MaxDatasets
    /\ Fits(self, others)
    /\ LET new == merge(heap, ds[self], List([k \in DOMAIN others |-> ds[others[k]]]))
       IN /\ heap' = new.heap
          /\ ds' = Append(ds, new.obj)
          /\ log' = new.warnings
    /\ last' = [op |-> "merge", self |-> self, others |-> List(others), args |-> NoInput]

\* the argument lists of a merge call
OthersLists == UNION {[1..n -> DOMAIN ds] : n \in 0..MaxOthers}

DoMerge == \E self \in DOMAIN ds : \E others \in OthersLists : Merge(self, others)

Next ==
    \/ \E inp \in MergeInputs : Construct(inp)
    \/ DoMerge

Spec == Init /\ [][Next]_vars

\* the same program on datasets that differ in their regex features
NextRegex ==
    \/ \E inp \in RegexInputs : Construct(inp)
    \/ DoMerge

SpecRegex == Init /\ [][NextRegex]_vars

\* the same program on datasets that differ in their examples
NextIntent ==
    \/ \E inp \in IntentInputs : Construct(inp)
    \/ DoMerge

SpecIntent == Init /\ [][NextIntent]_vars

(* ------------------------------------------------------------------ *)
(* What the claims speak about                                        *)
(* ------------------------------------------------------------------ *)

\* the instance the last call returned
Result == ds[Len(ds)]

\* the operands of the last merge, self first
Operands == <<last.self>> \o last.others

\* the contents of an instance: the values its references lead to
Snapshot(h, d) ==
    [examples |-> List([i \in DOMAIN d.training_examples |-> h.msg[d.training_examples[i]]]),
     synonyms |-> h.syn[d.entity_synonyms],
     regex    |-> List([i \in DOMAIN d.regex_features |-> h.rx[d.regex_features[i]]]),
     phrases  |-> List([i \in DOMAIN d.entity_phrases |->
                          <<d.entity_phrases[i][1], h.set[d.entity_phrases[i][2]]>>])]

PhraseSetIds(d) == {d.entity_phrases[i][2] : i \in DOMAIN d.entity_phrases}

(* ------------------------------------------------------------------ *)
(* C1, C2: merge and its operands                                     *)
(* ------------------------------------------------------------------ *)

\* C1: a merge step leaves every operand unmodified: the examples (each with
\* its fields), synonyms, regex features and entity phrases of self and of
\* every other are after the call what they were before it, and the returned
\* instance is a new one, none of the operands.
C1_MergeLeavesOperandsUnmodified ==
    [][last'.op = "merge" =>
          /\ Len(ds') = Len(ds) + 1
          /\ \A i \in {last'.self} \cup Range(last'.others) :
                /\ i \in DOMAIN ds
                /\ ds'[i] = ds[i]
                /\ Snapshot(heap', ds'[i]) = Snapshot(heap, ds[i])]_vars

\* a merge that changed what it accumulated from self: an other brought a
\* synonym self maps otherwise, phrases of an entity type self knows and
\* phrases of one it does not know
C1_Witness ==
    /\ last.op = "merge"
    /\ Len(last.others) >= 1
    /\ LET self == Snapshot(heap, ds[last.self])
           o == Snapshot(heap, ds[last.others[1]])
       IN /\ \E t \in DictKeys(o.synonyms) \cap DictKeys(self.synonyms) :
                DictGet(o.synonyms, t) # DictGet(self.synonyms, t)
          /\ \E e \in DictKeys(o.phrases) \cap DictKeys(self.phrases) :
                DictGet(o.phrases, e) # DictGet(self.phrases, e)
          /\ DictKeys(o.phrases) \ DictKeys(self.phrases) # {}
          /\ o.examples # <<>> /\ o.regex # <<>>

\* C2: the result of a merge shares no example, regex feature, synonym map or
\* phrase set with any operand.
C2_ResultSharesNothing ==
    last.op = "merge" =>
        \A k \in DOMAIN Operands :
            LET o == ds[Operands[k]]
            IN /\ Range(Result.training_examples) \cap Range(o.training_examples) = {}
               /\ Range(Result.regex_features) \cap Range(o.regex_features) = {}
               /\ Result.entity_synonyms # o.entity_synonyms
               /\ PhraseSetIds(Result) \cap PhraseSetIds(o) = {}

(* ------------------------------------------------------------------ *)
(* C3 - C6: what a merge returns                                      *)
(* ------------------------------------------------------------------ *)

\* the contents of the k-th operand of the last merge (1: self)
Operand(k) == Snapshot(heap, ds[Operands[k]])

\* the operands before the k-th that map the synonym text t
HoldersBefore(k, t) == {j \in 1..(k - 1) : t \in DictKeys(Operand(j).synonyms)}

\* the value the last operand before the k-th gives to t
ValueBefore(k, t) ==
    LET j == CHOOSE j \in HoldersBefore(k, t) : \A i \in HoldersBefore(k, t) : i <= j
    IN DictGet(Operand(j).synonyms, t)

\* the others (operands from the second on) whose value new for t replaces old
Conflicts(t, old, new) ==
    {k \in 2..Len(Operands) :
        /\ t \in DictKeys(Operand(k).synonyms)
        /\ DictGet(Operand(k).synonyms, t) = new
        /\ HoldersBefore(k, t) # {}
        /\ ValueBefore(k, t) = old
        /\ old # new}

DuplicateWarnings(t, old, new) ==
    {i \in DOMAIN log : /\ log[i].kind = "duplicate_synonym"
                        /\ log[i].key = t /\ log[i].old = old /\ log[i].new = new}

SynonymTexts == UNION {DictKeys(Operand(k).synonyms) : k \in DOMAIN Operands}

SynonymValues ==
    UNION {{Operand(k).synonyms[i][2] : i \in DOMAIN Operand(k).synonyms} : k \in DOMAIN Operands}

\* C3: a merge warns about a synonym of an other exactly when the text is
\* already mapped, by self or an earlier other, to a different value: once
\* for each such other and text, never otherwise.  The result maps every
\* text to the value of the last operand that holds it.
C3_SynonymWarningsAndLastWriter ==
    last.op = "merge" =>
        /\ \A t \in SynonymTexts : \A old \in SynonymValues : \A new \in SynonymValues :
              Cardinality(DuplicateWarnings(t, old, new)) = Cardinality(Conflicts(t, old, new))
        /\ \A i \in DOMAIN log :
              log[i].kind = "duplicate_synonym" =>
                  /\ log[i].key \in SynonymTexts
                  /\ log[i].old \in SynonymValues
                  /\ log[i].new \in SynonymValues
        /\ DictKeys(Snapshot(heap, Result).synonyms) = SynonymTexts
        /\ \A t \in SynonymTexts :
              DictGet(Snapshot(heap, Result).synonyms, t) = ValueBefore(Len(Operands) + 1, t)

\* a merge of two others that met a conflicting synonym (warned, overwritten)
\* and a synonym mapped to the value already there (not warned)
C3_Witness ==
    /\ last.op = "merge"
    /\ Len(last.others) = 2
    /\ \E i \in DOMAIN log : log[i].kind = "duplicate_synonym"
    /\ \E k \in 2..Len(Operands) : \E t \in DictKeys(Operand(k).synonyms) :
          /\ HoldersBefore(k, t) # {}
          /\ ValueBefore(k, t) = DictGet(Operand(k).synonyms, t)
    /\ \E k \in 2..Len(Operands) : \E t \in DictKeys(Operand(k).synonyms) :
          HoldersBefore(k, t) = {}

\* C4: the examples of a merge are self's examples followed by those of each
\* other, in argument order, each operand's order kept.
C4_ExamplesAreConcatenation ==
    last.op = "merge" =>
        Snapshot(heap, Result).examples
            = Flatten(List([k \in DOMAIN Operands |-> Operand(k).examples]))

\* a merge of two others, self and both others holding examples, the first
\* other's differing from the second's
C4_Witness ==
    /\ last.op = "merge"
    /\ Len(last.others) = 2
    /\ \A k \in DOMAIN Operands : Operand(k).examples # <<>>
    /\ Operand(2).examples # Operand(3).examples
    /\ Operand(1).examples # Operand(2).examples

\* the phrases operand k holds for entity type e
PhrasesOf(k, e) ==
    IF e \in DictKeys(Operand(k).phrases) THEN DictGet(Operand(k).phrases, e) ELSE {}

\* C5: the entity types of a merge are those of its operands, and the phrases
\* of each type are the union of the operands' phrases of that type.
C5_PhrasesAreUnion ==
    last.op = "merge" =>
        LET r == Snapshot(heap, Result).phrases
        IN /\ DictKeys(r) = UNION {DictKeys(Operand(k).phrases) : k \in DOMAIN Operands}
           /\ \A e \in DictKeys(r) :
                 DictGet(r, e) = UNION {PhrasesOf(k, e) : k \in DOMAIN Operands}
           /\ \A i \in DOMAIN r : \A j \in DOMAIN r : r[i][1] = r[j][1] => i = j

\* a merge in which the last other's phrases of an entity type lack a phrase
\* that an earlier operand holds for that type
C5_Witness ==
    /\ last.op = "merge"
    /\ Len(last.others) >= 1
    /\ \E e \in DictKeys(Operand(Len(Operands)).phrases) :
          \E k \in 1..Len(last.others) :
              PhrasesOf(k, e) \ PhrasesOf(Len(Operands), e) # {}

\* pairwise, left to right: self.merge(o1).merge(o2)... on the current heap;
\* each merge is made on the heap and the instance the one before returned
Pairwise ==
    LET f[k \in 0..Len(last.others)] ==
            IF k = 0 THEN [heap |-> heap, obj |-> ds[last.self]]
            ELSE CHOOSE r \in {merge(a.heap, a.obj, <<ds[last.others[k]]>>) : a \in {f[k - 1]}} : TRUE
    IN f[Len(last.others)]

\* C6: self.merge(o1, ..., on) and the pairwise merges self.merge(o1)...merge(on)
\* have the same examples, the same synonym map, the same phrase map and
\* the same sorted regex features.
C6_MergeIsAssociative ==
    last.op = "merge" =>
        LET direct == Snapshot(heap, Result)
            pairs == Snapshot(Pairwise.heap, Pairwise.obj)
        IN /\ direct.examples = pairs.examples
           /\ Range(direct.synonyms) = Range(pairs.synonyms)
           /\ Range(direct.phrases) = Range(pairs.phrases)
           /\ direct.regex = pairs.regex

\* a merge of self with two others, the first unlike self and unlike the
\* second, in which swapping self and the first other changes the synonym
\* map: merge is not commutative
C6_Witness ==
    /\ last.op = "merge"
    /\ Len(last.others) = 2
    /\ Operand(1) # Operand(2) /\ Operand(2) # Operand(3)
    /\ Operand(2).examples # <<>> /\ Operand(3).examples # <<>>
    /\ LET ab == merge(heap, ds[Operands[1]], <<ds[Operands[2]]>>)
           ba == merge(heap, ds[Operands[2]], <<ds[Operands[1]]>>)
       IN Range(ab.heap.syn[ab.obj.entity_synonyms]) # Range(ba.heap.syn[ba.obj.entity_synonyms])

(* ------------------------------------------------------------------ *)
(* C7 - C10: what the constructor establishes                         *)
(* ------------------------------------------------------------------ *)

\* what the last call was given: the constructor's arguments, or for a merge
\* the operands' contents one after the other
SuppliedRegex ==
    IF last.op = "init" THEN last.args.regex
    ELSE Flatten(List([k \in DOMAIN Operands |-> Operand(k).regex]))

SuppliedExamples ==
    IF last.op = "init" THEN last.args.examples
    ELSE Flatten(List([k \in DOMAIN Operands |-> Operand(k).examples]))

\* name + "+" + pattern, spelled out
CompositeKey(f) == f.name \o <<43>> \o f.pattern

\* a <= b for strings
StrLeq(a, b) == a = b \/ StrLess(a, b)

\* the features of fs whose composite key is key, in their order in fs
WithKey(fs, key) == Filter(fs, {i \in DOMAIN fs : CompositeKey(fs[i]) = key})

\* C7: in every instance the regex features are in non-decreasing order of
\* the composite key; those of the instance just made are the supplied ones
\* (for a merge: self's, then each other's), and features with the same key
\* are in the order in which they were supplied.
C7_RegexFeaturesSortedStable ==
    /\ \A n \in DOMAIN ds :
          LET fs == Snapshot(heap, ds[n]).regex
          IN \A i \in DOMAIN fs : \A j \in DOMAIN fs :
                i < j => StrLeq(CompositeKey(fs[i]), CompositeKey(fs[j]))
    /\ last.op # "none" =>
          LET fs == Snapshot(heap, Result).regex
          IN /\ Len(fs) = Len(SuppliedRegex)
             /\ \A i \in DOMAIN SuppliedRegex :
                   WithKey(fs, CompositeKey(SuppliedRegex[i]))
                       = WithKey(SuppliedRegex, CompositeKey(SuppliedRegex[i]))

\* an instance made from features that were not in order and of which two
\* differ and have the same key
C7_Witness ==
    /\ last.op # "none"
    /\ SuppliedRegex # Snapshot(heap, Result).regex
    /\ \E i \in DOMAIN SuppliedRegex : \E j \in DOMAIN SuppliedRegex :
          /\ SuppliedRegex[i] # SuppliedRegex[j]
          /\ CompositeKey(SuppliedRegex[i]) = CompositeKey(SuppliedRegex[j])
    /\ \E i \in DOMAIN SuppliedRegex : \E j \in DOMAIN SuppliedRegex :
          /\ SuppliedRegex[i].name = SuppliedRegex[j].name
          /\ StrLess(CompositeKey(SuppliedRegex[j]), CompositeKey(SuppliedRegex[i]))
          /\ i < j

\* a label without leading and trailing whitespace
Trimmed(s) == (s = <<>>) \/ (s[1] \notin Whitespace /\ s[Len(s)] \notin Whitespace)

\* the label s without its leading and trailing whitespace
IsTrimOf(t, s) ==
    /\ Trimmed(t)
    /\ \E i \in 0..Len(s) : \E j \in i..Len(s) :
          /\ t = SubSeq(s, i + 1, j)
          /\ \A k \in (1..i) \cup ((j + 1)..Len(s)) : s[k] \in Whitespace

\* C8: every example of every instance has no intent or a trimmed one; the
\* examples of the instance just made are the supplied ones, an absent
\* intent absent, a present one trimmed, text and entities as supplied; and
\* the derived views, computed by the constructor, hold trimmed labels only
\* and are those of the trimmed examples.
C8_IntentsNormalized ==
    /\ \A n \in DOMAIN ds :
          LET d == ds[n]
              es == Snapshot(heap, d).examples
          IN /\ \A i \in DOMAIN es : es[i].intent = None \/ Trimmed(es[i].intent[1])
             /\ {"intents", "examples_per_intent", "intent_examples"} \subseteq d.cached
             /\ \A s \in d.intents : Trimmed(s)
             /\ \A i \in DOMAIN d.examples_per_intent :
                   d.examples_per_intent[i][1] = None \/ Trimmed(d.examples_per_intent[i][1][1])
             /\ \A i \in DOMAIN d.intent_examples :
                   Trimmed(heap.msg[d.intent_examples[i]].intent[1])
             /\ d.intents = {es[i].intent[1] : i \in {j \in DOMAIN es : es[j].intent # None}}
    /\ last.op # "none" =>
          LET es == Snapshot(heap, Result).examples
          IN /\ Len(es) = Len(SuppliedExamples)
             /\ \A i \in DOMAIN es :
                   /\ es[i].text = SuppliedExamples[i].text
                   /\ es[i].entities = SuppliedExamples[i].entities
                   /\ (SuppliedExamples[i].intent = None) = (es[i].intent = None)
                   /\ es[i].intent # None =>
                         IsTrimOf(es[i].intent[1], SuppliedExamples[i].intent[1])

\* an instance constructed from intents with leading whitespace, with
\* trailing whitespace, and without an intent
C8_Witness ==
    /\ last.op = "init"
    /\ \E i \in DOMAIN last.args.examples :
          /\ last.args.examples[i].intent # None
          /\ Len(last.args.examples[i].intent[1]) > 1
          /\ last.args.examples[i].intent[1][1] \in Whitespace
          /\ Snapshot(heap, Result).examples[i].intent # last.args.examples[i].intent
    /\ \E i \in DOMAIN last.args.examples :
          /\ last.args.examples[i].intent # None
          /\ Len(last.args.examples[i].intent[1]) > 1
          /\ last.args.examples[i].intent[1][Len(last.args.examples[i].intent[1])] \in Whitespace

\* the warnings of the last call about the intent key
IntentWarnings(key) == {i \in DOMAIN log : log[i].kind = "intent" /\ log[i].key = key}

\* C9: the constructor (hence merge too) warns about an intent exactly when
\* its count in examples_per_intent is below 2, once; validate only warns:
\* it leaves examples, synonyms, regex features and phrases as they are.
C9_IntentBelowMinimumWarned ==
    last.op # "none" =>
        LET counts == Result.examples_per_intent
            again == validate(heap, Result)
        IN /\ \A i \in DOMAIN counts :
                 Cardinality(IntentWarnings(counts[i][1])) = IF counts[i][2] < 2 THEN 1 ELSE 0
           /\ \A i \in DOMAIN log :
                 log[i].kind = "intent" =>
                     /\ log[i].key \in DictKeys(counts)
                     /\ log[i].count = DictGet(counts, log[i].key)
           /\ Snapshot(again.heap, again.obj) = Snapshot(heap, Result)
           /\ again.heap = heap

\* a merge whose result has an intent with two examples (not warned about)
\* and one with a single example (warned about)
C9_Witness ==
    /\ last.op = "merge"
    /\ \E i \in DOMAIN Result.examples_per_intent :
          /\ Result.examples_per_intent[i][2] = 2
          /\ Result.examples_per_intent[i][1] # None
    /\ \E i \in DOMAIN Result.examples_per_intent :
          /\ Result.examples_per_intent[i][2] = 1
          /\ Result.examples_per_intent[i][1] # None
          /\ IntentWarnings(Result.examples_per_intent[i][1]) # {}

\* C10: in every instance the keys of examples_per_intent are the intents: an
\* example without intent is counted under no key and no intent warning is
\* about the absent intent; the counts add up to the number of examples
\* that have an intent.
C10_CountsKeyedByIntents ==
    /\ \A n \in DOMAIN ds :
          LET d == ds[n]
              es == Snapshot(heap, d).examples
          IN /\ DictKeys(d.examples_per_intent) = {Some(s) : s \in d.intents}
             /\ Sum(List([i \in DOMAIN d.examples_per_intent |-> d.examples_per_intent[i][2]]))
                   = Cardinality({i \in DOMAIN es : es[i].intent # None})
    /\ IntentWarnings(None) = {}

====
